---- MODULE Spec2Model ----
(***************************************************************************)
(* The angle-exhaustion engine of marcos/discovery_engine.py: the          *)
(* probability estimator, the default angle generator, the knowledge       *)
(* graph and the DiscoveryEngine driver (run, run_iterator, pause,         *)
(* resume).                                                                *)
(*                                                                         *)
(* Numbers.  Probabilities and confidences are fixed-point integers in     *)
(* units of 1/PUnit; every value the estimator can produce from its        *)
(* tables is a whole number of such units.  Signal strengths are in        *)
(* hundredths.  uuid4 identifiers are modelled by a counter: each new      *)
(* Angle or Discovery takes the next unused number.                        *)
(***************************************************************************)
EXTENDS Integers, Sequences, FiniteSets, TLC

(***************************************************************************)
(* Bounds of the model.                                                    *)
(***************************************************************************)
\* identifiers (angles and discoveries) the exact specification may allocate
MaxIds == 30
\* largest safety ceiling (max_iterations) a caller sets
MaxCeiling == 2
\* largest call threshold of the scripted executor of the tests
MaxThreshold == 3
\* calls of run, run_iterator and resume in one behaviour
MaxRuns == 2
\* the free executor signals only among the first MaxSignalIdx angles of a worklist
MaxSignalIdx == 2
\* direct calls of the generator: angles put in the graph first, largest count
MaxUnitAngles == 2
MaxCount == 16
\* binary floating point of the direct calls: width of the significand (53 in
\* the build) and number of fraction bits of the values the caller passes
FloatBits == 6
FracBits == 10

\* fixed-point unit of probabilities: 1/4000
PUnit == 4 * 1000
\* fixed-point unit of the running product (1-p)^k
QUnit == 400 * 1000

\* Python's None where an identifier or a number is expected (ids start at 1)
None == 0

Min(a, b) == IF a < b THEN a ELSE b
Max(a, b) == IF a > b THEN a ELSE b

(***************************************************************************)
(* AngleCategory, DiscoveryState                                           *)
(***************************************************************************)
CategoryList ==
  << "temporal", "structural", "relational", "semantic",
     "meta", "source", "technical", "inverse" >>

AngleCategory == { CategoryList[i] : i \in 1..Len(CategoryList) }

CategoryIndex(c) == CHOOSE i \in 1..Len(CategoryList) : CategoryList[i] = c

INITIALIZED == "initialized"
RUNNING == "running"
PAUSED == "paused"
SOLVED == "solved"
EXHAUSTED == "exhausted"

DiscoveryState == { INITIALIZED, RUNNING, PAUSED, SOLVED, EXHAUSTED }

(***************************************************************************)
(* AngleResult.is_discovery: has_signal and signal_strength >= 0.3         *)
(***************************************************************************)
DiscoveryThreshold == 30

\* a variant with a strict threshold
is_discovery_strict(r) == r.has_signal /\ r.signal_strength > DiscoveryThreshold

is_discovery(r) == r.has_signal /\ r.signal_strength >= DiscoveryThreshold

(***************************************************************************)
(* KnowledgeGraph.  angles, results and discoveries are dictionaries       *)
(* (functions on their key sets); failed_approaches and connections are    *)
(* lists.  An engine that has not run yet holds no graph (None).           *)
(***************************************************************************)
EmptyDict == [k \in {} |-> None]

DictSet(d, k, v) == [x \in (DOMAIN d) \cup {k} |-> IF x = k THEN v ELSE d[x]]

NoKnowledge ==
  [ none |-> TRUE, angles |-> EmptyDict, results |-> EmptyDict,
    discoveries |-> EmptyDict, failed_approaches |-> << >>,
    connections |-> << >>, problem |-> "" ]

KnowledgeGraph ==
  [ none |-> FALSE, angles |-> EmptyDict, results |-> EmptyDict,
    discoveries |-> EmptyDict, failed_approaches |-> << >>,
    connections |-> << >>, problem |-> "" ]

add_angle(kg, angle) ==
  [kg EXCEPT !.angles = DictSet(kg.angles, angle.id, angle)]

add_result(kg, r) ==
  [kg EXCEPT !.results = DictSet(kg.results, r.angle.id, r),
             !.failed_approaches =
                IF ~r.has_signal THEN Append(@, r.angle.id) ELSE @]

add_discovery(kg, d) ==
  [kg EXCEPT !.discoveries = DictSet(kg.discoveries, d.id, d)]

RECURSIVE merge(_, _)
merge(kg, findings) ==
  IF findings = << >> THEN kg
  ELSE merge(add_result(kg, Head(findings)), Tail(findings))

get_coverage_by_category(kg) ==
  [c \in AngleCategory |->
     Cardinality({k \in DOMAIN kg.angles : kg.angles[k].category = c})]

\* to_dict: the three dictionaries are copied into the serialized form
to_dict(kg) ==
  [ angles |-> kg.angles, results |-> kg.results, discoveries |-> kg.discoveries ]

(***************************************************************************)
(* ProbabilityEstimator.estimate, in units of 1/PUnit.                     *)
(***************************************************************************)
Novelties == { "well_studied", "partially_explored", "completely_novel" }
DataLevels == { "rich", "moderate", "sparse" }
ConstraintLevels == { "highly_constrained", "moderately_constrained", "wide_open" }
PriorWorks == { "many_failures", "some_attempts", "fresh_problem" }

\* midpoints of NOVELTY_BASE: 0.175, 0.065, 0.02
NoveltyBase(novelty) ==
  CASE novelty = "well_studied" -> 700
    [] novelty = "completely_novel" -> 80
    [] OTHER -> 260

\* DATA_MULTIPLIERS 1.5, 1.0, 0.5 as halves
DataMultiplier(data_availability) ==
  CASE data_availability = "rich" -> 3
    [] data_availability = "sparse" -> 1
    [] OTHER -> 2

\* CONSTRAINT_MULTIPLIERS 2.0, 1.0, 0.5 as halves
ConstraintMultiplier(constraint_level) ==
  CASE constraint_level = "highly_constrained" -> 4
    [] constraint_level = "wide_open" -> 1
    [] OTHER -> 2

\* midpoints of PRIOR_WORK_ADJUSTMENTS: 0.015, 0.10, 0.055
PriorFactor(prior_work) ==
  CASE prior_work = "many_failures" -> 60
    [] prior_work = "fresh_problem" -> 400
    [] OTHER -> 220

\* the clamp [0.001, 0.5]
PMin == PUnit \div 1000
PMax == PUnit \div 2

\* lines 288-291: estimated_p *= multiplier, for every custom factor in turn
\* (custom_factors: the multipliers, whole numbers here; << >> for None)
RECURSIVE apply_custom_factors(_, _)
apply_custom_factors(estimated_p, custom_factors) ==
  IF custom_factors = << >> THEN estimated_p
  ELSE apply_custom_factors(estimated_p * Head(custom_factors), Tail(custom_factors))

\* a variant without the clamp of line 294
estimate_unclamped(novelty, data_availability, constraint_level, prior_work, custom_factors) ==
  LET combined_base == (NoveltyBase(novelty) * 6 + PriorFactor(prior_work) * 4) \div 10
      estimated_p == (combined_base * DataMultiplier(data_availability)
                        * ConstraintMultiplier(constraint_level)) \div 4
  IN  apply_custom_factors(estimated_p, custom_factors)

estimate(novelty, data_availability, constraint_level, prior_work, custom_factors) ==
  LET combined_base == (NoveltyBase(novelty) * 6 + PriorFactor(prior_work) * 4) \div 10
      estimated_p == (combined_base * DataMultiplier(data_availability)
                        * ConstraintMultiplier(constraint_level)) \div 4
  IN  Max(PMin, Min(PMax, apply_custom_factors(estimated_p, custom_factors)))

(***************************************************************************)
(* calculate_angles_needed: ceil(log(1-target)/log(1-p)), at least 1,      *)
(* i.e. the least n >= 1 with (1-p)^n <= 1-target.  The running product    *)
(* is kept in units of 1/QUnit.                                            *)
(***************************************************************************)
ValidProbability(x) == x > 0 /\ x < PUnit

RECURSIVE PowerSearch(_, _, _, _)
PowerSearch(q, p, bound, n) ==
  IF q <= bound THEN n
  ELSE PowerSearch((q * (PUnit - p)) \div PUnit, p, bound, n + 1)

calculate_angles_needed(p, target_confidence) ==
  PowerSearch(((PUnit - p) * QUnit) \div PUnit, p,
              ((PUnit - target_confidence) * QUnit) \div PUnit, 1)

(***************************************************************************)
(* calculate_angles_needed and calculate_breakthrough_probability as the   *)
(* static functions compute them on floats.  A float is a whole number of  *)
(* units 1/FOne with at most FloatBits significant bits; 1 - p and the     *)
(* power are rounded to nearest, ties to even, as the hardware and pow do. *)
(* The quotient of the logarithms is taken without rounding error: its     *)
(* ceiling is the least n with (1-p)^n <= 1-target, computed exactly.      *)
(***************************************************************************)
RECURSIVE Pow2(_)
Pow2(k) == IF k = 0 THEN 1 ELSE 2 * Pow2(k - 1)

FOne == Pow2(FracBits)

\* the largest exponent whose exact power fits the integers of the checker
MaxPow == 30 \div FracBits

RECURSIVE BitLen(_)
BitLen(v) == IF v = 0 THEN 0 ELSE 1 + BitLen(v \div 2)

\* round to nearest, ties to even, at FloatBits significant bits
RoundFloat(v) ==
  LET s == BitLen(v) - FloatBits
  IN  IF s <= 0 THEN v
      ELSE LET unit == Pow2(s)
               q == v \div unit
               r == v % unit
               up == r > unit \div 2 \/ (r = unit \div 2 /\ q % 2 = 1)
           IN  (IF up THEN q + 1 ELSE q) * unit

RECURSIVE IntPow(_, _)
IntPow(x, n) == IF n = 0 THEN 1 ELSE x * IntPow(x, n - 1)

\* ceil(log(y) / log(x)) for 0 < x < 1 and 0 < y <= 1: the least n >= 0 with
\* x^n <= y, searched up to MaxPow (MaxPow + 1: beyond)
RECURSIVE LeastPower(_, _, _)
LeastPower(x, y, n) ==
  IF n > MaxPow THEN n
  ELSE IF (IF n = 0 THEN FOne <= y ELSE IntPow(x, n) <= y * IntPow(FOne, n - 1))
         THEN n
         ELSE LeastPower(x, y, n + 1)

\* lines 561-567
angles_needed(p, target_confidence) ==
  IF p <= 0 \/ p >= FOne THEN [ raised |-> "ValueError", n |-> 0 ]
  ELSE IF target_confidence <= 0 \/ target_confidence >= FOne
         THEN [ raised |-> "ValueError", n |-> 0 ]
  ELSE LET x == RoundFloat(FOne - p)
           y == RoundFloat(FOne - target_confidence)
       IN  IF x = FOne THEN [ raised |-> "ZeroDivisionError", n |-> 0 ]
           ELSE [ raised |-> "none", n |-> Max(1, LeastPower(x, y, 0)) ]

\* lines 583-588; the value is in units of 1/scale
breakthrough_probability(p, n) ==
  IF p <= 0 \/ p >= FOne THEN [ raised |-> "ValueError", value |-> 0, scale |-> 1 ]
  ELSE IF n < 1 THEN [ raised |-> "ValueError", value |-> 0, scale |-> 1 ]
  ELSE LET x == RoundFloat(FOne - p)
           scale == IntPow(FOne, n)
           power == RoundFloat(IntPow(x, n))
       IN  [ raised |-> "none", value |-> RoundFloat(scale - power), scale |-> scale ]

(***************************************************************************)
(* Angle, AngleResult, Discovery                                           *)
(***************************************************************************)
Angle(id, category, parent_id) ==
  [ id |-> id, category |-> category, parent_id |-> parent_id ]

AngleResult(angle, has_signal, signal_strength) ==
  [ angle |-> angle, has_signal |-> has_signal, signal_strength |-> signal_strength ]

Discovery(id, r) ==
  [ id |-> id, title |-> r.angle.category, confidence |-> r.signal_strength,
    source_angles |-> << r.angle.id >> ]

(***************************************************************************)
(* DefaultAngleGenerator.generate over all eight categories.  `uuid` is    *)
(* the last identifier handed out; the k-th Angle constructed takes        *)
(* uuid + k.                                                               *)
(***************************************************************************)
\* sorted(categories, key=coverage): stable, ties keep the order of the list
CategoryRank(categories, coverage, i) ==
  1 + Cardinality({ j \in 1..Len(categories) :
        \/ coverage[categories[j]] < coverage[categories[i]]
        \/ coverage[categories[j]] = coverage[categories[i]] /\ j < i })

sorted_categories(categories, coverage) ==
  [ r \in 1..Len(categories) |->
      categories[CHOOSE i \in 1..Len(categories) : CategoryRank(categories, coverage, i) = r] ]

per_category(count, k) == Max(1, count \div k)
remainder(count, k) == count % k

\* cat_count for the i-th (from 1) category in sorted order
cat_count(count, k, i) ==
  per_category(count, k) + (IF i - 1 < remainder(count, k) THEN 1 ELSE 0)

RECURSIVE ConstructedCategories(_, _, _)
ConstructedCategories(sorted, count, i) ==
  IF i > Len(sorted) THEN << >>
  ELSE [ j \in 1..cat_count(count, Len(sorted), i) |-> sorted[i] ]
         \o ConstructedCategories(sorted, count, i + 1)

\* a variant that returns everything it built, without the final cut
generate_uncut(knowledge, count, categories, uuid) ==
  LET sorted == sorted_categories(categories, get_coverage_by_category(knowledge))
      cats == ConstructedCategories(sorted, count, 1)
  IN  [ k \in 1..Len(cats) |-> Angle(uuid + k, cats[k], None) ]

\* `categories` is the list given, CategoryList when the caller gives None
generate(knowledge, count, categories, uuid) ==
  LET tried_angle_ids == DOMAIN knowledge.angles
      sorted == sorted_categories(categories, get_coverage_by_category(knowledge))
      cats == ConstructedCategories(sorted, count, 1)
      built == [ k \in 1..Len(cats) |-> Angle(uuid + k, cats[k], None) ]
      angles == SelectSeq(built, LAMBDA a : a.id \notin tried_angle_ids)
  IN  SubSeq(angles, 1, Min(count, Len(angles)))

(***************************************************************************)
(* DefaultAngleGenerator.branch_on_discovery                               *)
(***************************************************************************)
get_related_categories(category) ==
  CASE category = "temporal" -> << "temporal", "structural", "meta" >>
    [] category = "structural" -> << "structural", "technical", "relational" >>
    [] category = "relational" -> << "relational", "semantic", "source" >>
    [] category = "semantic" -> << "semantic", "meta", "inverse" >>
    [] category = "meta" -> << "meta", "source", "temporal" >>
    [] category = "source" -> << "source", "relational", "technical" >>
    [] category = "technical" -> << "technical", "structural", "inverse" >>
    [] category = "inverse" -> << "inverse", "semantic", "meta" >>
    [] OTHER -> CategoryList

\* a variant whose loop stops one short
branch_on_discovery_short(r, count, uuid) ==
  LET related_categories == get_related_categories(r.angle.category)
  IN  [ i \in 1..(count - 1) |->
          Angle(uuid + i,
                related_categories[((i - 1) % Len(related_categories)) + 1],
                r.angle.id) ]

branch_on_discovery(r, count, uuid) ==
  LET related_categories == get_related_categories(r.angle.category)
  IN  [ i \in 1..count |->
          Angle(uuid + i,
                related_categories[((i - 1) % Len(related_categories)) + 1],
                r.angle.id) ]

\* a variant that rounds to the nearest integer instead of truncating
branch_count_rounded(r) == 10 + ((r.signal_strength + 5) \div 10)

\* branch_count = 10 + int(result.signal_strength * 10)
branch_count(r) == 10 + (r.signal_strength \div 10)

(***************************************************************************)
(* State.                                                                  *)
(***************************************************************************)
VARIABLES
  \* DiscoveryEngine attributes
  state, knowledge, probability_logs, current_iteration, max_iterations,
  interrupt_requested, checkpoint, estimation_history,
  \* the frame of the active run / run_iterator call
  pc, mode, problem, target_confidence, novelty, data_availability,
  constraint_level, prior_work, all_discoveries, angles, idx, results, result,
  \* what the last call handed back: the report or snapshot, the exception raised
  report, raised,
  \* the caller and the injected strategies
  uuid, executor, signal_from, call_count, caller_checkpoint, run_calls,
  \* observations of the current call: strategy invocations, loop bodies,
  \* signalling results, the iteration a pause arrived in, angles handed to
  \* the worklist, the method called
  calls, bodies, run_signals, paused_in, generated, called

engineVars ==
  << state, knowledge, probability_logs, current_iteration, max_iterations,
     interrupt_requested, checkpoint, estimation_history >>

descriptorVars == << novelty, data_availability, constraint_level, prior_work >>

frameVars ==
  << pc, mode, problem, target_confidence, descriptorVars, all_discoveries,
     angles, idx, results, result >>

callerVars == << uuid, executor, signal_from, call_count, caller_checkpoint, run_calls >>

observedVars == << calls, bodies, run_signals, paused_in, generated, called >>

vars == << engineVars, frameVars, report, raised, callerVars, observedVars >>

DefaultMaxIterations == 100

NoCheckpoint ==
  [ none |-> TRUE, problem |-> "", target_confidence |-> 0, iteration |-> 0,
    knowledge |-> to_dict(KnowledgeGraph), probability_logs |-> << >> ]

NoResult == AngleResult(Angle(None, "", None), FALSE, 0)

NoReport ==
  [ kind |-> "none", state |-> "", problem |-> "", iterations |-> 0,
    discoveries |-> << >>, total_angles_tried |-> 0, successful_angles |-> 0,
    failed_angles |-> 0, n |-> 0, angles_executed |-> 0,
    discoveries_this_iteration |-> 0 ]

NoCalls == [ generate |-> 0, executor |-> 0, branch |-> 0, checker |-> 0 ]

\* the observation counters stop counting past the bound
Counted(c) == Min(c + 1, MaxIds + 1)

\* the inputs callers pass to run and run_iterator: problem text, target
\* confidence (0.05, 0.1) and novelty; the other descriptors keep their defaults
RunInputs ==
  { [ problem |-> "A", target_confidence |-> PUnit \div 20,
      novelty |-> "partially_explored" ],
    [ problem |-> "B", target_confidence |-> PUnit \div 10,
      novelty |-> "well_studied" ] }

\* target confidences outside (0,1) a caller may pass: 0 and 1
InvalidRunInputs ==
  { [ problem |-> "A", target_confidence |-> 0, novelty |-> "partially_explored" ],
    [ problem |-> "B", target_confidence |-> PUnit, novelty |-> "well_studied" ] }

\* what an executor may answer: no signal (with strength 0, or with a strength
\* of 0.5 left in the result), or a signal of strength 0.29, 0.3, 0.8
NoSignal == [ has_signal |-> FALSE, signal_strength |-> 0 ]
Outcomes ==
  { NoSignal, [ has_signal |-> FALSE, signal_strength |-> 50 ] }
    \cup { [ has_signal |-> TRUE, signal_strength |-> s ] : s \in {29, 30, 80} }

\* the executor of test_run_finds_solution answers with strength 0.8
ScriptedStrength == 80

(***************************************************************************)
(* DiscoveryEngine.__init__                                                *)
(***************************************************************************)
EngineInit ==
  /\ state = INITIALIZED
  /\ knowledge = NoKnowledge
  /\ probability_logs = << >>
  /\ current_iteration = 0
  /\ max_iterations = DefaultMaxIterations
  /\ interrupt_requested = FALSE
  /\ checkpoint = NoCheckpoint
  /\ estimation_history = << >>

FrameInit ==
  /\ pc = "idle"
  /\ mode = "none"
  /\ problem = ""
  /\ target_confidence = 0
  /\ novelty = ""
  /\ data_availability = ""
  /\ constraint_level = ""
  /\ prior_work = ""
  /\ all_discoveries = << >>
  /\ angles = << >>
  /\ idx = 0
  /\ results = << >>
  /\ result = NoResult

Init ==
  /\ EngineInit
  /\ FrameInit
  /\ report = NoReport
  /\ raised = "none"
  /\ uuid = 0
  /\ executor = "free"
  /\ signal_from = 0
  /\ call_count = 0
  /\ caller_checkpoint = NoCheckpoint
  /\ run_calls = 0
  /\ calls = NoCalls
  /\ bodies = 0
  /\ run_signals = 0
  /\ paused_in = 0
  /\ generated = 0
  /\ called = "none"

\* the frame of a call that has returned is gone
FrameGone ==
  /\ mode' = "none"
  /\ problem' = ""
  /\ target_confidence' = 0
  /\ novelty' = ""
  /\ data_availability' = ""
  /\ constraint_level' = ""
  /\ prior_work' = ""
  /\ all_discoveries' = << >>
  /\ angles' = << >>
  /\ idx' = 0
  /\ results' = << >>
  /\ result' = NoResult

Callable == pc \in { "idle", "returned", "yielded" }

(***************************************************************************)
(* The caller sets engine.max_iterations on the engine just constructed    *)
(* (as the tests do).                                                      *)
(***************************************************************************)
SetMaxIterations(m) ==
  /\ pc = "idle"
  /\ max_iterations = DefaultMaxIterations
  /\ max_iterations' = m
  /\ UNCHANGED << state, knowledge, probability_logs, current_iteration,
                  interrupt_requested, checkpoint, estimation_history >>
  /\ UNCHANGED << frameVars, report, raised, callerVars, observedVars >>

\* a variant of the entry that always starts from an empty graph
RunEntryFreshGraph(method, m, input, initial_knowledge) ==
  /\ run_calls < MaxRuns
  /\ max_iterations <= MaxCeiling
  /\ run_calls' = run_calls + 1
  /\ state' = RUNNING
  /\ knowledge' = [ KnowledgeGraph EXCEPT !.problem = input.problem ]
  /\ current_iteration' = 0
  /\ pc' = "loop"
  /\ mode' = m
  /\ problem' = input.problem
  /\ target_confidence' = input.target_confidence
  /\ novelty' = input.novelty
  /\ data_availability' = "moderate"
  /\ constraint_level' = "moderately_constrained"
  /\ prior_work' = "some_attempts"
  /\ all_discoveries' = << >>
  /\ angles' = << >>
  /\ idx' = 0
  /\ results' = << >>
  /\ result' = NoResult
  /\ report' = NoReport
  /\ raised' = "none"
  /\ calls' = NoCalls
  /\ bodies' = 0
  /\ run_signals' = 0
  /\ paused_in' = 0
  /\ generated' = 0
  /\ called' = method
  /\ UNCHANGED << probability_logs, max_iterations, estimation_history,
                  uuid, executor, signal_from, call_count, caller_checkpoint >>

\* a variant of the entry that continues the iteration count of the checkpoint
RunEntryContinuing(method, m, input, initial_knowledge) ==
  /\ run_calls < MaxRuns
  /\ max_iterations <= MaxCeiling
  /\ run_calls' = run_calls + 1
  /\ state' = RUNNING
  /\ knowledge' = [ (IF initial_knowledge.none THEN KnowledgeGraph ELSE initial_knowledge)
                      EXCEPT !.problem = input.problem ]
  /\ current_iteration' = IF method = "resume" THEN checkpoint'.iteration - 1 ELSE 0
  /\ pc' = "loop"
  /\ mode' = m
  /\ problem' = input.problem
  /\ target_confidence' = input.target_confidence
  /\ novelty' = input.novelty
  /\ data_availability' = "moderate"
  /\ constraint_level' = "moderately_constrained"
  /\ prior_work' = "some_attempts"
  /\ all_discoveries' = << >>
  /\ angles' = << >>
  /\ idx' = 0
  /\ results' = << >>
  /\ result' = NoResult
  /\ report' = NoReport
  /\ raised' = "none"
  /\ calls' = NoCalls
  /\ bodies' = 0
  /\ run_signals' = 0
  /\ paused_in' = 0
  /\ generated' = 0
  /\ called' = method
  /\ UNCHANGED << probability_logs, max_iterations, estimation_history,
                  uuid, executor, signal_from, call_count, caller_checkpoint >>

(***************************************************************************)
(* run, lines 617-624: the entry of the call.                              *)
(***************************************************************************)
RunEntry(method, m, input, initial_knowledge) ==
  /\ run_calls < MaxRuns
  /\ max_iterations <= MaxCeiling
  /\ run_calls' = run_calls + 1
  /\ state' = RUNNING
  /\ knowledge' = [ (IF initial_knowledge.none THEN KnowledgeGraph ELSE initial_knowledge)
                      EXCEPT !.problem = input.problem ]
  /\ current_iteration' = 0
  /\ pc' = "loop"
  /\ mode' = m
  /\ problem' = input.problem
  /\ target_confidence' = input.target_confidence
  /\ novelty' = input.novelty
  /\ data_availability' = "moderate"
  /\ constraint_level' = "moderately_constrained"
  /\ prior_work' = "some_attempts"
  /\ all_discoveries' = << >>
  /\ angles' = << >>
  /\ idx' = 0
  /\ results' = << >>
  /\ result' = NoResult
  /\ report' = NoReport
  /\ raised' = "none"
  /\ calls' = NoCalls
  /\ bodies' = 0
  /\ run_signals' = 0
  /\ paused_in' = 0
  /\ generated' = 0
  /\ called' = method
  /\ UNCHANGED << probability_logs, max_iterations, estimation_history,
                  uuid, executor, signal_from, call_count, caller_checkpoint >>

\* a variant of run that leaves the pause request as it finds it
RunKeepingPause(input) ==
  /\ Callable
  /\ RunEntry("run", "run", input, NoKnowledge)
  /\ UNCHANGED << interrupt_requested, checkpoint >>

\* engine.run(problem, target_confidence, novelty=...)
Run(input) ==
  /\ Callable
  /\ RunEntry("run", "run", input, NoKnowledge)
  /\ interrupt_requested' = FALSE
  /\ UNCHANGED checkpoint

\* engine.run_iterator(problem, target_confidence, novelty=...), lines 757-767,
\* up to the first resumption point reached by next()
RunIterator(input) ==
  /\ Callable
  /\ RunEntry("run_iterator", "iterator", input, NoKnowledge)
  /\ UNCHANGED << interrupt_requested, checkpoint >>

(***************************************************************************)
(* The top of one loop iteration of run, lines 626-667.                    *)
(***************************************************************************)
AtLoopTop == pc = "loop" /\ state = RUNNING

\* lines 629-633: the safety ceiling
IterExhausted ==
  /\ AtLoopTop
  /\ mode = "run"
  /\ current_iteration + 1 > max_iterations
  /\ current_iteration' = current_iteration + 1
  /\ state' = EXHAUSTED
  /\ pc' = "return"
  /\ UNCHANGED << knowledge, probability_logs, max_iterations,
                  interrupt_requested, checkpoint, estimation_history >>
  /\ UNCHANGED << mode, problem, target_confidence, descriptorVars,
                  all_discoveries, angles, idx, results, result >>
  /\ UNCHANGED << report, raised, callerVars, observedVars >>

\* _save_checkpoint, lines 856-864
save_checkpoint(iteration) ==
  [ none |-> FALSE, problem |-> problem, target_confidence |-> target_confidence,
    iteration |-> iteration, knowledge |-> to_dict(knowledge),
    probability_logs |-> probability_logs ]

\* a variant of the pause branch that stores no checkpoint
IterPausedNoCheckpoint ==
  /\ AtLoopTop
  /\ mode = "run"
  /\ current_iteration + 1 <= max_iterations
  /\ interrupt_requested
  /\ current_iteration' = current_iteration + 1
  /\ state' = PAUSED
  /\ UNCHANGED checkpoint
  /\ pc' = "return"
  /\ UNCHANGED << knowledge, probability_logs, max_iterations,
                  interrupt_requested, estimation_history >>
  /\ UNCHANGED << mode, problem, target_confidence, descriptorVars,
                  all_discoveries, angles, idx, results, result >>
  /\ UNCHANGED << report, raised, callerVars, observedVars >>

\* a variant of the pause branch that is taken before the ceiling is tested
IterPausedBeforeCeiling ==
  /\ AtLoopTop
  /\ mode = "run"
  /\ interrupt_requested
  /\ current_iteration' = current_iteration + 1
  /\ state' = PAUSED
  /\ checkpoint' = save_checkpoint(current_iteration + 1)
  /\ pc' = "return"
  /\ UNCHANGED << knowledge, probability_logs, max_iterations,
                  interrupt_requested, estimation_history >>
  /\ UNCHANGED << mode, problem, target_confidence, descriptorVars,
                  all_discoveries, angles, idx, results, result >>
  /\ UNCHANGED << report, raised, callerVars, observedVars >>

\* lines 635-640: the pause request is observed
IterPaused ==
  /\ AtLoopTop
  /\ mode = "run"
  /\ current_iteration + 1 <= max_iterations
  /\ interrupt_requested
  /\ current_iteration' = current_iteration + 1
  /\ state' = PAUSED
  /\ checkpoint' = save_checkpoint(current_iteration + 1)
  /\ pc' = "return"
  /\ UNCHANGED << knowledge, probability_logs, max_iterations,
                  interrupt_requested, estimation_history >>
  /\ UNCHANGED << mode, problem, target_confidence, descriptorVars,
                  all_discoveries, angles, idx, results, result >>
  /\ UNCHANGED << report, raised, callerVars, observedVars >>

ProbabilityLog(iteration, p, n) ==
  [ loop_iteration |-> iteration, estimated_p |-> p,
    target_confidence |-> target_confidence, calculated_n |-> n,
    reasoning |-> << novelty, data_availability, constraint_level, prior_work >> ]

EstimatedP == estimate(novelty, data_availability, constraint_level, prior_work, << >>)

AnglesNeeded == calculate_angles_needed(EstimatedP, target_confidence)

\* a variant of the generation step that never looks at the pause request
IterGenerateIgnoringPause ==
  /\ AtLoopTop
  /\ current_iteration + 1 <= max_iterations
  /\ ValidProbability(target_confidence)
  /\ LET log == ProbabilityLog(current_iteration + 1, EstimatedP, AnglesNeeded)
         new_angles == generate(knowledge, AnglesNeeded, CategoryList, uuid)
     IN  /\ current_iteration' = current_iteration + 1
         /\ estimation_history' = Append(estimation_history, log)
         /\ probability_logs' = Append(probability_logs, log)
         /\ angles' = new_angles
         /\ uuid' = uuid + Len(new_angles)
         /\ generated' = generated + Len(new_angles)
  /\ idx' = 0
  /\ results' = << >>
  /\ pc' = "exec"
  /\ calls' = [calls EXCEPT !.generate = Counted(@)]
  /\ bodies' = Counted(bodies)
  /\ UNCHANGED << state, knowledge, max_iterations, interrupt_requested, checkpoint >>
  /\ UNCHANGED << mode, problem, target_confidence, descriptorVars,
                  all_discoveries, result >>
  /\ UNCHANGED << report, raised, executor, signal_from, call_count,
                  caller_checkpoint, run_calls, run_signals, paused_in, called >>

\* lines 644-667 (run) and 776-791 (run_iterator): estimate p, compute n,
\* log both, generate n angles
IterGenerate ==
  /\ AtLoopTop
  /\ current_iteration + 1 <= max_iterations
  /\ mode = "run" => ~interrupt_requested
  /\ ValidProbability(target_confidence)
  /\ LET log == ProbabilityLog(current_iteration + 1, EstimatedP, AnglesNeeded)
         new_angles == generate(knowledge, AnglesNeeded, CategoryList, uuid)
     IN  /\ current_iteration' = current_iteration + 1
         /\ estimation_history' = Append(estimation_history, log)
         /\ probability_logs' = Append(probability_logs, log)
         /\ angles' = new_angles
         /\ uuid' = uuid + Len(new_angles)
         /\ generated' = generated + Len(new_angles)
  /\ idx' = 0
  /\ results' = << >>
  /\ pc' = "exec"
  /\ calls' = [calls EXCEPT !.generate = Counted(@)]
  /\ bodies' = Counted(bodies)
  /\ UNCHANGED << state, knowledge, max_iterations, interrupt_requested, checkpoint >>
  /\ UNCHANGED << mode, problem, target_confidence, descriptorVars,
                  all_discoveries, result >>
  /\ UNCHANGED << report, raised, executor, signal_from, call_count,
                  caller_checkpoint, run_calls, run_signals, paused_in, called >>

\* a variant that raises after the record has reached the engine's log
IterRaisesAfterLogging ==
  /\ AtLoopTop
  /\ current_iteration + 1 <= max_iterations
  /\ mode = "run" => ~interrupt_requested
  /\ ~ValidProbability(target_confidence)
  /\ current_iteration' = current_iteration + 1
  /\ estimation_history' =
       Append(estimation_history, ProbabilityLog(current_iteration + 1, EstimatedP, 0))
  /\ raised' = "ValueError"
  /\ pc' = "returned"
  /\ FrameGone
  /\ probability_logs' =
       Append(probability_logs, ProbabilityLog(current_iteration + 1, EstimatedP, 0))
  /\ UNCHANGED << state, knowledge, max_iterations,
                  interrupt_requested, checkpoint >>
  /\ UNCHANGED << report, callerVars, observedVars >>

\* lines 645-655 (run) and 777-785 (run_iterator) with a target confidence
\* outside (0,1): the estimator logs its estimate, calculate_angles_needed
\* raises ValueError (lines 562-563) and the exception leaves the call
IterRaises ==
  /\ AtLoopTop
  /\ current_iteration + 1 <= max_iterations
  /\ mode = "run" => ~interrupt_requested
  /\ ~ValidProbability(target_confidence)
  /\ current_iteration' = current_iteration + 1
  /\ estimation_history' =
       Append(estimation_history, ProbabilityLog(current_iteration + 1, EstimatedP, 0))
  /\ raised' = "ValueError"
  /\ pc' = "returned"
  /\ FrameGone
  /\ UNCHANGED << state, knowledge, probability_logs, max_iterations,
                  interrupt_requested, checkpoint >>
  /\ UNCHANGED << report, callerVars, observedVars >>

(***************************************************************************)
(* The worklist, lines 671-684 (run) and 793-797 (run_iterator).           *)
(***************************************************************************)
\* a variant of the executor call that skips the registration of the angle
CallExecutorUnregistered(outcome) ==
  /\ pc = "exec"
  /\ idx < Len(angles)
  /\ LET angle == angles[idx + 1]
     IN  /\ knowledge' = knowledge
         /\ result' = AngleResult(angle, outcome.has_signal, outcome.signal_strength)
  /\ pc' = "record"
  /\ calls' = [calls EXCEPT !.executor = Counted(@)]
  /\ UNCHANGED << state, probability_logs, current_iteration, max_iterations,
                  interrupt_requested, checkpoint, estimation_history >>
  /\ UNCHANGED << mode, problem, target_confidence, descriptorVars,
                  all_discoveries, angles, idx, results >>
  /\ UNCHANGED << report, raised, uuid, executor, signal_from, caller_checkpoint,
                  run_calls, bodies, run_signals, paused_in, generated, called >>

\* lines 672-673: register the angle, call the executor, which answers
\* `outcome` for the angle it was given
CallExecutor(outcome) ==
  /\ pc = "exec"
  /\ idx < Len(angles)
  /\ LET angle == angles[idx + 1]
     IN  /\ knowledge' = add_angle(knowledge, angle)
         /\ result' = AngleResult(angle, outcome.has_signal, outcome.signal_strength)
  /\ pc' = "record"
  /\ calls' = [calls EXCEPT !.executor = Counted(@)]
  /\ UNCHANGED << state, probability_logs, current_iteration, max_iterations,
                  interrupt_requested, checkpoint, estimation_history >>
  /\ UNCHANGED << mode, problem, target_confidence, descriptorVars,
                  all_discoveries, angles, idx, results >>
  /\ UNCHANGED << report, raised, uuid, executor, signal_from, caller_checkpoint,
                  run_calls, bodies, run_signals, paused_in, generated, called >>

\* a variant that branches on discovery-grade results only
BranchesOnDiscovery(r) == mode = "run" /\ is_discovery(r)

\* lines 678 and 682: run branches on every signalling result
Branches(r) == mode = "run" /\ r.has_signal

\* a variant that puts the branch angles at the front of the pending worklist
RecordResultLifo ==
  /\ pc = "record"
  /\ results' = Append(results, result)
  /\ knowledge' = add_result(knowledge, result)
  /\ IF Branches(result)
       THEN LET new_angles == branch_on_discovery(result, branch_count(result), uuid)
            IN  /\ angles' = SubSeq(angles, 1, idx + 1) \o new_angles
                               \o SubSeq(angles, idx + 2, Len(angles))
                /\ uuid' = uuid + Len(new_angles)
                /\ generated' = generated + Len(new_angles)
                /\ calls' = [calls EXCEPT !.branch = Counted(@)]
       ELSE UNCHANGED << angles, uuid, generated, calls >>
  /\ run_signals' = IF result.has_signal THEN Counted(run_signals) ELSE run_signals
  /\ idx' = idx + 1
  /\ pc' = "exec"
  /\ UNCHANGED << state, probability_logs, current_iteration, max_iterations,
                  interrupt_requested, checkpoint, estimation_history >>
  /\ UNCHANGED << mode, problem, target_confidence, descriptorVars,
                  all_discoveries, result >>
  /\ UNCHANGED << report, raised, executor, signal_from, call_count,
                  caller_checkpoint, run_calls, bodies, paused_in, called >>

\* lines 674-684: keep the result, register it, branch on signal
RecordResult ==
  /\ pc = "record"
  /\ results' = Append(results, result)
  /\ knowledge' = add_result(knowledge, result)
  /\ IF Branches(result)
       THEN LET new_angles == branch_on_discovery(result, branch_count(result), uuid)
            IN  /\ angles' = angles \o new_angles
                /\ uuid' = uuid + Len(new_angles)
                /\ generated' = generated + Len(new_angles)
                /\ calls' = [calls EXCEPT !.branch = Counted(@)]
       ELSE UNCHANGED << angles, uuid, generated, calls >>
  /\ run_signals' = IF result.has_signal THEN Counted(run_signals) ELSE run_signals
  /\ idx' = idx + 1
  /\ pc' = "exec"
  /\ UNCHANGED << state, probability_logs, current_iteration, max_iterations,
                  interrupt_requested, checkpoint, estimation_history >>
  /\ UNCHANGED << mode, problem, target_confidence, descriptorVars,
                  all_discoveries, result >>
  /\ UNCHANGED << report, raised, executor, signal_from, call_count,
                  caller_checkpoint, run_calls, bodies, paused_in, called >>

(***************************************************************************)
(* The end of one iteration of run, lines 686-728.                         *)
(***************************************************************************)
WorklistDone == pc = "exec" /\ idx = Len(angles)

\* line 687: the discovery-grade results of this iteration
IterationDiscoveries == SelectSeq(results, is_discovery)

\* lines 694-702: one Discovery per discovery-grade result
Synthesized ==
  [ i \in 1..Len(IterationDiscoveries) |-> Discovery(uuid + i, IterationDiscoveries[i]) ]

RECURSIVE add_discoveries(_, _)
add_discoveries(kg, ds) ==
  IF ds = << >> THEN kg
  ELSE add_discoveries(add_discovery(kg, Head(ds)), Tail(ds))

\* a variant that drops straight to the bottom
degrade_to_bottom(nov) ==
  CASE nov = "well_studied" -> "completely_novel"
    [] nov = "partially_explored" -> "completely_novel"
    [] OTHER -> nov

\* lines 720-723
degrade(nov) ==
  CASE nov = "well_studied" -> "partially_explored"
    [] nov = "partially_explored" -> "completely_novel"
    [] OTHER -> nov

\* lines 714-728: no discovery-grade result in this iteration
ProcessNoDiscovery ==
  /\ WorklistDone
  /\ mode = "run"
  /\ IterationDiscoveries = << >>
  /\ novelty' = degrade(novelty)
  /\ prior_work' = "many_failures"
  /\ knowledge' = merge(knowledge, results)
  /\ pc' = "loop"
  /\ UNCHANGED << state, probability_logs, current_iteration, max_iterations,
                  interrupt_requested, checkpoint, estimation_history >>
  /\ UNCHANGED << mode, problem, target_confidence, data_availability,
                  constraint_level, all_discoveries, angles, idx, results, result >>
  /\ UNCHANGED << report, raised, callerVars, observedVars >>

\* lines 692-712 and 727-728: discoveries are synthesized and the solution
\* checker, which answers `solved`, is asked
ProcessDiscoveries(solved) ==
  /\ WorklistDone
  /\ mode = "run"
  /\ IterationDiscoveries # << >>
  /\ all_discoveries' = all_discoveries \o Synthesized
  /\ uuid' = uuid + Len(Synthesized)
  /\ calls' = [calls EXCEPT !.checker = Counted(@)]
  /\ IF solved
       THEN /\ state' = SOLVED
            /\ knowledge' = add_discoveries(knowledge, Synthesized)
            /\ pc' = "return"
            /\ UNCHANGED data_availability
       ELSE /\ data_availability' = "rich"
            /\ knowledge' = merge(add_discoveries(knowledge, Synthesized), results)
            /\ pc' = "loop"
            /\ UNCHANGED state
  /\ UNCHANGED << probability_logs, current_iteration, max_iterations,
                  interrupt_requested, checkpoint, estimation_history >>
  /\ UNCHANGED << mode, problem, target_confidence, novelty, constraint_level,
                  prior_work, angles, idx, results, result >>
  /\ UNCHANGED << report, raised, executor, signal_from, call_count,
                  caller_checkpoint, run_calls, bodies, run_signals, paused_in,
                  generated, called >>

\* lines 730-741: the report run returns
FinalReport ==
  [ kind |-> "report", state |-> state, problem |-> problem,
    iterations |-> current_iteration, discoveries |-> all_discoveries,
    total_angles_tried |-> Cardinality(DOMAIN knowledge.angles),
    successful_angles |->
      Cardinality({ k \in DOMAIN knowledge.results : knowledge.results[k].has_signal }),
    failed_angles |->
      Cardinality({ k \in DOMAIN knowledge.results : ~knowledge.results[k].has_signal }),
    n |-> 0, angles_executed |-> 0, discoveries_this_iteration |-> 0 ]

\* a variant of the return that resets the state
ReturnResetsState ==
  /\ pc = "return"
  /\ report' = FinalReport
  /\ pc' = "returned"
  /\ FrameGone
  /\ state' = INITIALIZED
  /\ UNCHANGED << knowledge, probability_logs, current_iteration, max_iterations,
                  interrupt_requested, checkpoint, estimation_history >>
  /\ UNCHANGED << raised, callerVars, observedVars >>

Return ==
  /\ pc = "return"
  /\ report' = FinalReport
  /\ pc' = "returned"
  /\ FrameGone
  /\ UNCHANGED << engineVars, raised, callerVars, observedVars >>

(***************************************************************************)
(* run_iterator: the ceiling, the end of an iteration and the yield,       *)
(* lines 769-825.                                                          *)
(***************************************************************************)
\* lines 772-774: the generator ends
IteratorExhausted ==
  /\ AtLoopTop
  /\ mode = "iterator"
  /\ current_iteration + 1 > max_iterations
  /\ current_iteration' = current_iteration + 1
  /\ state' = EXHAUSTED
  /\ pc' = "returned"
  /\ FrameGone
  /\ UNCHANGED << knowledge, probability_logs, max_iterations,
                  interrupt_requested, checkpoint, estimation_history >>
  /\ UNCHANGED << report, raised, callerVars, observedVars >>

\* a variant of the snapshot that numbers the iteration by the length of the log
SnapshotCountingLogs(new_state, total) ==
  [ kind |-> "snapshot", state |-> new_state, problem |-> problem,
    iterations |-> Len(probability_logs), discoveries |-> total,
    total_angles_tried |-> 0, successful_angles |-> 0, failed_angles |-> 0,
    n |-> probability_logs[Len(probability_logs)].calculated_n,
    angles_executed |-> Len(results),
    discoveries_this_iteration |-> Len(IterationDiscoveries) ]

\* lines 816-825
Snapshot(new_state, total) ==
  [ kind |-> "snapshot", state |-> new_state, problem |-> problem,
    iterations |-> current_iteration, discoveries |-> total,
    total_angles_tried |-> 0, successful_angles |-> 0, failed_angles |-> 0,
    n |-> probability_logs[Len(probability_logs)].calculated_n,
    angles_executed |-> Len(results),
    discoveries_this_iteration |-> Len(IterationDiscoveries) ]

\* lines 799-825: synthesize, ask the checker when there are discoveries, yield
YieldIteration(solved) ==
  /\ WorklistDone
  /\ mode = "iterator"
  /\ IterationDiscoveries = << >> => ~solved
  /\ all_discoveries' = all_discoveries \o Synthesized
  /\ uuid' = uuid + Len(Synthesized)
  /\ knowledge' = add_discoveries(knowledge, Synthesized)
  /\ calls' = [calls EXCEPT !.checker = IF IterationDiscoveries # << >> THEN Counted(@) ELSE @]
  /\ state' = IF solved THEN SOLVED ELSE state
  /\ report' = Snapshot(state', all_discoveries')
  /\ pc' = "yielded"
  /\ UNCHANGED << probability_logs, current_iteration, max_iterations,
                  interrupt_requested, checkpoint, estimation_history >>
  /\ UNCHANGED << mode, problem, target_confidence, descriptorVars,
                  angles, idx, results, result >>
  /\ UNCHANGED << raised, executor, signal_from, call_count, caller_checkpoint,
                  run_calls, bodies, run_signals, paused_in, generated, called >>

\* next() on the suspended generator: back to the while test of line 769
IteratorNext ==
  /\ pc = "yielded"
  /\ IF state = RUNNING
       THEN /\ pc' = "loop"
            /\ UNCHANGED << mode, problem, target_confidence, descriptorVars,
                            all_discoveries, angles, idx, results, result >>
       ELSE /\ pc' = "returned"
            /\ FrameGone
  /\ raised' = "none"
  /\ UNCHANGED << engineVars, report, callerVars, observedVars >>

(***************************************************************************)
(* pause, resume, checkpoints                                              *)
(***************************************************************************)
InIteration == mode = "run" /\ pc \in { "loop", "exec", "record" } /\ current_iteration >= 1

\* pause, lines 827-830
Pause ==
  /\ ~interrupt_requested
  /\ interrupt_requested' = TRUE
  /\ paused_in' = IF InIteration /\ state = RUNNING THEN current_iteration ELSE paused_in
  /\ UNCHANGED << state, knowledge, probability_logs, current_iteration,
                  max_iterations, checkpoint, estimation_history >>
  /\ raised' = "none"
  /\ UNCHANGED << frameVars, report, callerVars, calls, bodies, run_signals,
                  generated, called >>

\* resume, lines 842-854, with _load_checkpoint, lines 866-870: `given` is the
\* checkpoint argument (NoCheckpoint for None)
ResumeRuns(given) ==
  /\ Callable
  /\ ~given.none \/ ~checkpoint.none
  /\ LET loaded == IF ~given.none THEN given ELSE checkpoint
     IN  /\ checkpoint' = loaded
         /\ RunEntry("resume", "run",
                     [ problem |-> loaded.problem,
                       target_confidence |-> loaded.target_confidence,
                       novelty |-> "partially_explored" ],
                     knowledge)
  /\ interrupt_requested' = FALSE

\* a variant of the failing resume that clears the pause request first
ResumeRaisesClearingPause(given) ==
  /\ Callable
  /\ given.none /\ checkpoint.none
  /\ raised' = "ValueError"
  /\ interrupt_requested' = FALSE
  /\ UNCHANGED << state, knowledge, probability_logs, current_iteration,
                  max_iterations, checkpoint, estimation_history >>
  /\ UNCHANGED << frameVars, report, callerVars, observedVars >>

\* resume, lines 846-847: no checkpoint anywhere
ResumeRaises(given) ==
  /\ Callable
  /\ given.none /\ checkpoint.none
  /\ raised' = "ValueError"
  /\ UNCHANGED << engineVars, frameVars, report, callerVars, observedVars >>

\* a second engine is constructed; the caller keeps the checkpoint of the first
Construct ==
  /\ Callable
  /\ ~checkpoint.none
  /\ caller_checkpoint' = checkpoint
  /\ state' = INITIALIZED
  /\ knowledge' = NoKnowledge
  /\ probability_logs' = << >>
  /\ current_iteration' = 0
  /\ max_iterations' = DefaultMaxIterations
  /\ interrupt_requested' = FALSE
  /\ checkpoint' = NoCheckpoint
  /\ estimation_history' = << >>
  /\ pc' = "idle"
  /\ FrameGone
  /\ report' = NoReport
  /\ raised' = "none"
  /\ calls' = NoCalls
  /\ bodies' = 0
  /\ run_signals' = 0
  /\ paused_in' = 0
  /\ generated' = 0
  /\ called' = "none"
  /\ UNCHANGED << uuid, executor, signal_from, call_count, run_calls >>

(***************************************************************************)
(* The specification: any caller, any executor and any solution checker,   *)
(* within the bounds.                                                      *)
(***************************************************************************)
\* discovery-grade results awaiting their Discovery identifiers
PendingDiscoveries(outcome) ==
  Len(IterationDiscoveries) + (IF is_discovery(outcome) THEN 1 ELSE 0)

\* an answer other than the plain no-signal comes among the first
\* MaxSignalIdx results of an iteration, and the identifiers it will cost fit
\* under MaxIds
RoomFor(outcome) ==
  outcome # NoSignal =>
    /\ idx < MaxSignalIdx
    /\ uuid + (IF Branches(outcome) THEN branch_count(outcome) ELSE 0)
         + PendingDiscoveries(outcome) <= MaxIds

FreeExecutorCall ==
  \E outcome \in Outcomes :
    /\ executor = "free"
    /\ RoomFor(outcome)
    /\ CallExecutor(outcome)
    /\ UNCHANGED call_count

BoundedGenerate ==
  /\ ValidProbability(target_confidence)
  /\ uuid + AnglesNeeded <= MaxIds
  /\ IterGenerate

Next ==
  \/ \E m \in 1..MaxCeiling : SetMaxIterations(m)
  \/ \E input \in RunInputs \cup InvalidRunInputs : Run(input)
  \/ \E input \in RunInputs \cup InvalidRunInputs : RunIterator(input)
  \/ IterExhausted
  \/ IterPaused
  \/ BoundedGenerate
  \/ IterRaises
  \/ FreeExecutorCall
  \/ RecordResult
  \/ ProcessNoDiscovery
  \/ \E solved \in BOOLEAN : ProcessDiscoveries(solved)
  \/ Return
  \/ IteratorExhausted
  \/ \E solved \in BOOLEAN : YieldIteration(solved)
  \/ IteratorNext
  \/ Pause
  \/ \E given \in { NoCheckpoint, caller_checkpoint } : ResumeRuns(given)
  \/ \E given \in { NoCheckpoint, caller_checkpoint } : ResumeRaises(given)
  \/ Construct

Spec == Init /\ [][Next]_vars

(***************************************************************************)
(* One run call under the scripted strategies of the tests: an executor    *)
(* that counts its invocations and signals with strength 0.8 from the      *)
(* signal_from-th on ("threshold") or at the signal_from-th only ("once"), *)
(* and the checker `len(discoveries) >= 1`.  The interpreter keeps         *)
(* executing the call, hence weak fairness of the steps.                   *)
(*                                                                         *)
(* The worklist may outgrow MaxIds here.  Past that the model keeps the    *)
(* window it can name: a signal whose branch angles no longer fit leaves   *)
(* the worklist position where it is, so the pending part of the modelled  *)
(* worklist is never longer than the pending part of the real one.         *)
(***************************************************************************)
ScriptedOutcome ==
  LET k == call_count + 1
      signals == IF executor = "once" THEN k = signal_from ELSE k >= signal_from
  IN  IF signals THEN [ has_signal |-> TRUE, signal_strength |-> ScriptedStrength ]
      ELSE NoSignal

ScriptedExecutorCall ==
  /\ executor \in { "threshold", "once" }
  /\ CallExecutor(ScriptedOutcome)
  /\ call_count' = Min(call_count + 1, MaxThreshold + 1)

ScriptedChecker(discoveries) == Len(discoveries) >= 1

Fits(r) == Branches(r) => uuid + branch_count(r) <= MaxIds

RecordResultFolded ==
  /\ pc = "record"
  /\ ~Fits(result)
  /\ knowledge' = add_result(knowledge, result)
  /\ results' = IF results # << >> /\ results[Len(results)] = result
                  THEN results ELSE Append(results, result)
  /\ pc' = "exec"
  /\ UNCHANGED << state, probability_logs, current_iteration, max_iterations,
                  interrupt_requested, checkpoint, estimation_history >>
  /\ UNCHANGED << mode, problem, target_confidence, descriptorVars,
                  all_discoveries, angles, idx, result >>
  /\ UNCHANGED << report, raised, callerVars, observedVars >>

LiveInit ==
  /\ FrameInit
  /\ state = INITIALIZED
  /\ knowledge = NoKnowledge
  /\ probability_logs = << >>
  /\ current_iteration = 0
  /\ max_iterations \in 1..MaxCeiling
  /\ interrupt_requested = FALSE
  /\ checkpoint = NoCheckpoint
  /\ estimation_history = << >>
  /\ report = NoReport
  /\ raised = "none"
  /\ uuid = 0
  /\ executor \in { "threshold", "once" }
  /\ signal_from \in 1..MaxThreshold
  /\ call_count = 0
  /\ caller_checkpoint = NoCheckpoint
  /\ run_calls = 0
  /\ calls = NoCalls
  /\ bodies = 0
  /\ run_signals = 0
  /\ paused_in = 0
  /\ generated = 0
  /\ called = "none"

LiveNext ==
  \/ \E input \in RunInputs : pc = "idle" /\ Run(input)
  \/ IterExhausted
  \/ IterGenerate
  \/ ScriptedExecutorCall
  \/ Fits(result) /\ RecordResult
  \/ RecordResultFolded
  \/ ProcessNoDiscovery
  \/ ProcessDiscoveries(ScriptedChecker(all_discoveries \o Synthesized))
  \/ Return

LiveSpec == LiveInit /\ [][LiveNext]_vars /\ WF_vars(LiveNext)

(***************************************************************************)
(* Direct calls, as the unit tests make them: a caller builds a            *)
(* KnowledgeGraph, then calls one method of the generator, the estimator   *)
(* or one of the static probability functions.  `report` holds the         *)
(* arguments and the value returned, `raised` the exception, `angles` the  *)
(* list a generator method returned.                                       *)
(***************************************************************************)
\* the category lists callers pass: None (all eight), the two of
\* test_generate_specific_categories, and a list of three
UnitCategoryLists ==
  { CategoryList, << "technical", "inverse" >>, << "meta", "temporal", "source" >> }

UnitInit ==
  /\ EngineInit
  /\ FrameInit
  /\ report = NoReport
  /\ raised = "none"
  /\ uuid = 0
  /\ executor = "free"
  /\ signal_from = 0
  /\ call_count = 0
  /\ caller_checkpoint = NoCheckpoint
  /\ run_calls = 0
  /\ calls = NoCalls
  /\ bodies = 0
  /\ run_signals = 0
  /\ paused_in = 0
  /\ generated = 0
  /\ called = "none"

\* what every direct call leaves alone
UnitUntouched ==
  /\ UNCHANGED << state, probability_logs, current_iteration, max_iterations,
                  interrupt_requested, checkpoint >>
  /\ UNCHANGED << mode, problem, target_confidence, all_discoveries, idx, results >>
  /\ UNCHANGED << executor, signal_from, call_count, caller_checkpoint, run_calls >>
  /\ UNCHANGED << calls, bodies, run_signals, paused_in, generated >>

\* kg = KnowledgeGraph(); kg.add_angle(Angle(category=category))
UnitAddAngle(category) ==
  /\ pc = "idle"
  /\ Cardinality(DOMAIN knowledge.angles) < MaxUnitAngles
  /\ knowledge' = add_angle(IF knowledge.none THEN KnowledgeGraph ELSE knowledge,
                            Angle(uuid + 1, category, None))
  /\ uuid' = uuid + 1
  /\ UnitUntouched
  /\ UNCHANGED << estimation_history, pc, descriptorVars, angles, result,
                  report, raised, called >>

\* generator.generate(problem, kg, count, categories)
UnitGenerate(count, categories) ==
  /\ pc = "idle"
  /\ LET kg == IF knowledge.none THEN KnowledgeGraph ELSE knowledge
         new_angles == generate(kg, count, categories, uuid)
     IN  /\ knowledge' = kg
         /\ angles' = new_angles
         /\ uuid' = uuid + Len(new_angles)
  /\ report' = [ kind |-> "generate", count |-> count, categories |-> categories ]
  /\ raised' = "none"
  /\ called' = "generate"
  /\ pc' = "returned"
  /\ UnitUntouched
  /\ UNCHANGED << estimation_history, descriptorVars, result >>

\* generator.branch_on_discovery(AngleResult(angle=Angle(category=category),
\* has_signal=True, signal_strength=0.8), count)
UnitBranch(category, count) ==
  /\ pc = "idle"
  /\ LET r == AngleResult(Angle(uuid + 1, category, None), TRUE, ScriptedStrength)
         new_angles == branch_on_discovery(r, count, uuid + 1)
     IN  /\ result' = r
         /\ angles' = new_angles
         /\ uuid' = uuid + 1 + Len(new_angles)
  /\ report' = [ kind |-> "branch_on_discovery", count |-> count ]
  /\ raised' = "none"
  /\ called' = "branch_on_discovery"
  /\ pc' = "returned"
  /\ UnitUntouched
  /\ UNCHANGED << knowledge, estimation_history, descriptorVars >>

\* the custom_factors callers pass: None, and multipliers 0, 2, 1000, -1
UnitCustomFactors == { << >>, << 0 >>, << 2 >>, << 1000 >>, << -1 >>, << 2, 2 >> }

\* descriptor values callers pass: the table keys and one unknown key
UnitDescriptors(keys) == keys \cup { "unknown" }

\* ProbabilityEstimator().estimate(novelty, data_availability,
\* constraint_level, prior_work, custom_factors)
UnitEstimate(nov, data, cons, prior, custom_factors) ==
  /\ pc = "idle"
  /\ knowledge.none
  /\ LET p == estimate(nov, data, cons, prior, custom_factors)
     IN  /\ report' = [ kind |-> "estimate", custom_factors |-> custom_factors, p |-> p ]
         /\ estimation_history' =
              Append(estimation_history,
                     [ loop_iteration |-> 0, estimated_p |-> p, target_confidence |-> 0,
                       calculated_n |-> 0, reasoning |-> << nov, data, cons, prior >> ])
  /\ novelty' = nov
  /\ data_availability' = data
  /\ constraint_level' = cons
  /\ prior_work' = prior
  /\ raised' = "none"
  /\ called' = "estimate"
  /\ pc' = "returned"
  /\ UnitUntouched
  /\ UNCHANGED << knowledge, uuid, angles, result >>

\* the floats callers pass: every float of [0, 1], one negative, one above 1
UnitFloats ==
  { v \in 0..FOne : RoundFloat(v) = v } \cup { 0 - FOne \div 2, FOne + FOne \div 2 }

\* n = DiscoveryEngine.calculate_angles_needed(p, target)
UnitAnglesNeeded ==
  /\ pc = "idle"
  /\ knowledge.none
  /\ \E p \in UnitFloats : \E target \in UnitFloats :
       LET r == angles_needed(p, target)
       IN  /\ r.n <= MaxPow
           /\ report' = [ kind |-> "calculate_angles_needed", p |-> p,
                          target |-> target, n |-> r.n ]
           /\ raised' = r.raised
  /\ called' = "calculate_angles_needed"
  /\ pc' = "returned"
  /\ UnitUntouched
  /\ UNCHANGED << knowledge, estimation_history, uuid, descriptorVars, angles, result >>

BreakthroughCall(p, n, target) ==
  /\ LET r == breakthrough_probability(p, n)
     IN  /\ report' = [ kind |-> "calculate_breakthrough_probability", p |-> p,
                        n |-> n, target |-> target, value |-> r.value,
                        scale |-> r.scale ]
         /\ raised' = r.raised
  /\ called' = "calculate_breakthrough_probability"
  /\ pc' = "returned"
  /\ UnitUntouched
  /\ UNCHANGED << knowledge, estimation_history, uuid, descriptorVars, angles, result >>

\* DiscoveryEngine.calculate_breakthrough_probability(p, n)
UnitBreakthrough ==
  /\ pc = "idle"
  /\ knowledge.none
  /\ \E p \in UnitFloats : \E n \in (0 - 1)..MaxPow : BreakthroughCall(p, n, 0)

\* actual_prob = DiscoveryEngine.calculate_breakthrough_probability(p, n) with
\* the n just computed for (p, target), as test_probability_math_consistency
UnitBreakthroughOfNeeded ==
  /\ pc = "returned"
  /\ called = "calculate_angles_needed"
  /\ raised = "none"
  /\ BreakthroughCall(report.p, report.n, report.target)

UnitNext ==
  \/ \E category \in AngleCategory : UnitAddAngle(category)
  \/ \E count \in 0..MaxCount : \E categories \in UnitCategoryLists :
       UnitGenerate(count, categories)
  \/ \E category \in AngleCategory : \E count \in 0..MaxCount :
       UnitBranch(category, count)
  \/ \E nov \in UnitDescriptors(Novelties) : \E data \in UnitDescriptors(DataLevels) :
     \E cons \in UnitDescriptors(ConstraintLevels) : \E prior \in UnitDescriptors(PriorWorks) :
       \E custom_factors \in UnitCustomFactors :
         UnitEstimate(nov, data, cons, prior, custom_factors)
  \/ UnitAnglesNeeded
  \/ UnitBreakthrough
  \/ UnitBreakthroughOfNeeded

UnitSpec == UnitInit /\ [][UnitNext]_vars

(***************************************************************************)
(* Properties.                                                             *)
(***************************************************************************)
Terminal == { SOLVED, EXHAUSTED, PAUSED }

InCall == pc \in { "loop", "exec", "record", "return" }

\* C1: every call of run terminates: whatever the executor answers, the
\* worklist of each iteration is drained and run returns in state SOLVED,
\* EXHAUSTED or PAUSED after at most max_iterations loop bodies.
C1_RunTerminates ==
  <>(pc = "returned" /\ state \in Terminal /\ bodies <= max_iterations)

\* C2: with the executor that stays silent at first and signals with
\* strength 0.8 from some invocation on (one reached before the ceiling),
\* and the checker that accepts any non-empty discovery list, run returns
\* in state SOLVED with at least one discovery.
C2_ScriptedRunSolves ==
  (executor = "threshold" /\ signal_from <= max_iterations)
    => <>(pc = "returned" /\ report.state = SOLVED /\ Len(report.discoveries) >= 1)

\* C3: a run whose executor never signalled (and that nobody paused), under
\* the ceiling max_iterations = M >= 1, returns EXHAUSTED with
\* report["iterations"] = M, M loop bodies executed and no discovery.
C3_SilentRunReport ==
  ( /\ pc = "returned"
    /\ report.kind = "report"
    /\ run_signals = 0
    /\ ~interrupt_requested
    /\ max_iterations >= 1 )
    => /\ report.state = EXHAUSTED
       /\ bodies = max_iterations
       /\ report.discoveries = << >>
       /\ report.iterations = max_iterations

\* C4: inside one call the state only moves RUNNING -> SOLVED, EXHAUSTED or
\* PAUSED (RUNNING being set on entry), a terminal state is never left
\* before the call returns, and generator, executor and checker are
\* invoked from state RUNNING only.
C4_Step ==
  /\ (Callable /\ pc' = "loop") => state' = RUNNING
  /\ (InCall /\ state' # state) => (state = RUNNING /\ state' \in Terminal)
  /\ (InCall /\ pc' # "returned") => state' \in { RUNNING } \cup Terminal
  /\ (InCall /\ \E f \in DOMAIN calls : calls'[f] > calls[f]) => state = RUNNING

C4_StateMachine == [][C4_Step]_vars

C4_Witness == pc = "return" /\ state = SOLVED /\ calls.checker >= 1

\* C5: PAUSED is entered only at the top of an iteration with the pause
\* request set and nothing generated in that step; a run that returned
\* PAUSED has stored a checkpoint, and every angle registered in the graph
\* has its result.
EveryAngleHasResult(kg) == DOMAIN kg.angles \subseteq DOMAIN kg.results

C5_Step ==
  /\ (state' = PAUSED /\ state # PAUSED) =>
        /\ pc = "loop" /\ interrupt_requested /\ pc' = "return"
        /\ calls' = calls /\ bodies' = bodies /\ angles' = angles
        /\ knowledge' = knowledge
  /\ (pc' = "returned" /\ state' = PAUSED) =>
        /\ ~checkpoint'.none
        /\ EveryAngleHasResult(knowledge')

C5_PausedOnlyAtTop == [][C5_Step]_vars

C5_Witness ==
  /\ pc = "returned" /\ state = PAUSED
  /\ calls.branch >= 1
  /\ Cardinality(DOMAIN knowledge.angles) >= 1

\* C6: after pause() arrives during iteration k of run, the worklist of
\* iteration k is finished, generate is not called again in that run, the
\* run ends at the top of iteration k+1 (or, solved, at the end of
\* iteration k), and if k < max_iterations and iteration k is not solved it
\* ends PAUSED with a checkpoint of the problem, the target confidence, the
\* iteration, the knowledge and the probability logs.
C6_AtReturn ==
  (pc = "return" /\ mode = "run" /\ paused_in >= 1) =>
    /\ idx = Len(angles)
    /\ EveryAngleHasResult(knowledge)
    /\ bodies = paused_in
    /\ IF state = SOLVED THEN current_iteration = paused_in
                         ELSE current_iteration = paused_in + 1
    /\ (paused_in < max_iterations /\ state # SOLVED) =>
          /\ state = PAUSED
          /\ checkpoint =
               [ none |-> FALSE, problem |-> problem,
                 target_confidence |-> target_confidence,
                 iteration |-> paused_in + 1,
                 knowledge |-> [ angles |-> knowledge.angles,
                                 results |-> knowledge.results,
                                 discoveries |-> knowledge.discoveries ],
                 probability_logs |-> probability_logs ]

C6_Step ==
  /\ (InCall /\ mode = "run" /\ interrupt_requested) =>
        calls'.generate = calls.generate
  /\ C6_AtReturn'

C6_PauseEndsRun == [][C6_Step]_vars

C6_Witness ==
  /\ pc = "return" /\ state = PAUSED /\ paused_in >= 1
  /\ calls.branch >= 1

\* C7: resume re-enters the loop RUNNING with the checkpoint's problem and
\* target confidence and with a graph holding every angle, result and
\* discovery the checkpoint recorded.
HoldsAll(d, saved) ==
  \A k \in DOMAIN saved : k \in DOMAIN d /\ d[k] = saved[k]

C7_ResumeStep ==
  (called' = "resume" /\ run_calls' = run_calls + 1) =>
    /\ state' = RUNNING /\ pc' = "loop"
    /\ problem' = checkpoint'.problem
    /\ target_confidence' = checkpoint'.target_confidence
    /\ HoldsAll(knowledge'.angles, checkpoint'.knowledge.angles)
    /\ HoldsAll(knowledge'.results, checkpoint'.knowledge.results)
    /\ HoldsAll(knowledge'.discoveries, checkpoint'.knowledge.discoveries)

C7_ResumeRestoresGraph == [][C7_ResumeStep]_vars

\* C8: resume with no checkpoint passed and none stored raises ValueError
\* and leaves state, current_iteration, the graph, the probability logs and
\* the pause flag as they were.
C8_Step ==
  (Callable /\ raised = "none" /\ raised' = "ValueError") =>
    /\ checkpoint.none
    /\ UNCHANGED << state, current_iteration, knowledge, probability_logs,
                    interrupt_requested, checkpoint >>

C8_ResumeRaisesCleanly == [][C8_Step]_vars

C8_Witness ==
  /\ raised = "ValueError"
  /\ state \in { SOLVED, EXHAUSTED }
  /\ interrupt_requested

\* C9: over the iterations of run and run_iterator, pause and resume on one
\* engine, the graph only grows: no angle, result or discovery is dropped
\* or replaced, failed_approaches and connections are only extended; and
\* between iterations the graph holds at least as many angles as the call
\* has generated.
IsPrefix(a, b) == Len(a) <= Len(b) /\ SubSeq(b, 1, Len(a)) = a

Grows(before, after) ==
  /\ HoldsAll(after.angles, before.angles)
  /\ HoldsAll(after.results, before.results)
  /\ HoldsAll(after.discoveries, before.discoveries)
  /\ IsPrefix(before.failed_approaches, after.failed_approaches)
  /\ IsPrefix(before.connections, after.connections)

FreshGraphStep ==
  \/ called' \in { "run", "run_iterator" } /\ run_calls' # run_calls
  \/ knowledge'.none

C9_Step ==
  /\ ~FreshGraphStep => Grows(knowledge, knowledge')
  /\ (pc' \in { "loop", "return", "returned", "yielded" } /\ ~knowledge'.none) =>
        Cardinality(DOMAIN knowledge'.angles) >= generated'

C9_GraphMonotonic == [][C9_Step]_vars

C9_Witness ==
  /\ called = "resume" /\ pc = "returned"
  /\ generated >= 1
  /\ Cardinality(DOMAIN knowledge.angles) > generated
  /\ Len(knowledge.failed_approaches) >= 1

\* C10: every result in the graph belongs to an angle registered before
\* the result was added, and every discovery's source angle is a
\* registered angle whose result is discovery-grade.
C10_Graph(kg) ==
  /\ DOMAIN kg.results \subseteq DOMAIN kg.angles
  /\ \A k \in DOMAIN kg.results : kg.results[k].angle = kg.angles[k]
  /\ \A d \in DOMAIN kg.discoveries :
       \A i \in 1..Len(kg.discoveries[d].source_angles) :
         LET src == kg.discoveries[d].source_angles[i]
         IN  /\ src \in DOMAIN kg.angles
             /\ src \in DOMAIN kg.results
             /\ is_discovery(kg.results[src])

C10_Step ==
  /\ C10_Graph(knowledge')
  /\ ~FreshGraphStep =>
       \A k \in (DOMAIN knowledge'.results) \ (DOMAIN knowledge.results) :
         k \in DOMAIN knowledge.angles

C10_ResultsReferenceAngles == [][C10_Step]_vars

C10_Witness ==
  /\ Cardinality(DOMAIN knowledge.discoveries) >= 1
  /\ Len(knowledge.failed_approaches) >= 1
  /\ pc = "record"

\* C11: whenever the solution checker is invoked, the list it receives holds
\* every discovery recorded in the knowledge graph at that moment (those made
\* before a pause/resume included).
CheckerInvoked == calls'.checker > calls.checker

InList(list, d) == \E i \in 1..Len(list) : list[i] = d

C11_Step ==
  CheckerInvoked =>
    \A d \in DOMAIN knowledge'.discoveries :
      InList(all_discoveries', knowledge'.discoveries[d])

C11_CheckerGetsFullList == [][C11_Step]_vars

\* C12: within one iteration the executor is invoked sequentially in
\* worklist order, generated angles first and branch angles in the order
\* they were appended; a branch angle comes after its parent, which has been
\* executed, and the iteration closes (synthesis, checker, next estimate)
\* only when every angle of the worklist has been registered and executed.
InWorklist == pc \in { "exec", "record" }

C12_Order ==
  /\ Len(results) = idx
  /\ \A i \in 1..Len(results) : results[i].angle = angles[i]
  /\ \A i \in 1..Len(angles) : \A j \in 1..Len(angles) :
       i < j => angles[i].id < angles[j].id
  /\ \A i \in 1..Len(angles) :
       angles[i].parent_id # None =>
         \E j \in 1..idx : j < i /\ angles[j].id = angles[i].parent_id
  /\ pc = "record" =>
       /\ result.angle = angles[idx + 1]
       /\ result.angle.id \in DOMAIN knowledge.angles

C12_Step ==
  /\ InWorklist' => C12_Order'
  /\ (InWorklist /\ InWorklist') => IsPrefix(angles, angles')
  /\ (calls'.executor > calls.executor) =>
       \A i \in 1..idx : angles[i].id \in DOMAIN knowledge.results
  /\ (InWorklist /\ ~InWorklist') =>
       /\ idx = Len(angles)
       /\ \A i \in 1..Len(angles) :
            /\ angles[i].id \in DOMAIN knowledge.angles
            /\ angles[i].id \in DOMAIN knowledge.results

C12_WorklistFifo == [][C12_Step]_vars

C12_Witness ==
  /\ pc = "exec" /\ idx = Len(angles) /\ mode = "run"
  /\ \E i \in 1..Len(angles) : \E j \in 1..Len(angles) :
       /\ angles[i].parent_id # None
       /\ angles[j].parent_id = angles[i].id

\* C13 (as stated): a result with signal of strength s recorded during run
\* appends exactly 10 + round(10*s) branch angles to the worklist at once,
\* a result without signal appends none.  Strengths are in hundredths.
Appended == Len(angles') - Len(angles)

Recording == pc = "record" /\ pc' = "exec" /\ idx' = idx + 1 /\ mode = "run"

Rounded(s) == (s + 5) \div 10

C13_StepRounded ==
  Recording =>
    /\ IsPrefix(angles, angles')
    /\ Appended = IF result.has_signal THEN 10 + Rounded(result.signal_strength) ELSE 0

C13_BranchCountRounded == [][C13_StepRounded]_vars

\* C13 (amended): the number appended is 10 + the integer part of 10*s,
\* i.e. the n in 10..20 with n - 10 <= 10*s < n - 10 + 1.
C13_StepTruncated ==
  Recording =>
    /\ IsPrefix(angles, angles')
    /\ IF result.has_signal
         THEN /\ Appended \in 10..20
              /\ 10 * (Appended - 10) <= result.signal_strength
              /\ result.signal_strength < 10 * (Appended - 10) + 10
              /\ \A i \in (Len(angles) + 1)..Len(angles') :
                   angles'[i].parent_id = result.angle.id
         ELSE Appended = 0

C13_BranchCountTruncated == [][C13_StepTruncated]_vars

C13_Witness ==
  /\ pc = "exec" /\ mode = "run" /\ idx >= 1
  /\ results[idx].has_signal /\ results[idx].signal_strength = 29
  /\ Cardinality({ i \in 1..Len(angles) : angles[i].parent_id = results[idx].angle.id }) = 12

\* C14: branch_on_discovery(result, count) returns exactly count angles, each
\* with parent_id the triggering angle's id, the i-th (from 0) of category
\* entry i mod 3 of the three-entry adjacency list of the triggering
\* category, whose first entry is that category itself.
Adjacent(category) == get_related_categories(category)

C14_BranchOnDiscovery ==
  (pc = "returned" /\ called = "branch_on_discovery") =>
    /\ Len(angles) = report.count
    /\ Len(Adjacent(result.angle.category)) = 3
    /\ Adjacent(result.angle.category)[1] = result.angle.category
    /\ \A i \in 0..(Len(angles) - 1) :
         /\ angles[i + 1].parent_id = result.angle.id
         /\ angles[i + 1].parent_id # None
         /\ angles[i + 1].category = Adjacent(result.angle.category)[(i % 3) + 1]
         /\ angles[i + 1].id # result.angle.id

C14_Witness ==
  /\ pc = "returned" /\ called = "branch_on_discovery"
  /\ report.count = 15 /\ Len(angles) = 15
  /\ result.angle.category = "structural"
  /\ angles[5].category = "technical"

\* C15: generate(problem, knowledge, count, categories) returns exactly
\* count angles, each of a category of the requested list (all eight when
\* none is given).
InCategories(list, c) == \E i \in 1..Len(list) : list[i] = c

C15_GenerateCount ==
  (pc = "returned" /\ called = "generate") =>
    /\ Len(angles) = report.count
    /\ \A i \in 1..Len(angles) : InCategories(report.categories, angles[i].category)
    /\ \A i \in 1..Len(angles) :
         /\ angles[i].id \notin DOMAIN knowledge.angles
         /\ \A j \in 1..Len(angles) : i # j => angles[i].id # angles[j].id

C15_Witness ==
  /\ pc = "returned" /\ called = "generate"
  /\ report.count = 3 /\ Len(angles) = 3
  /\ Len(report.categories) = 8
  /\ Cardinality(DOMAIN knowledge.angles) = 2

\* C16: in a batch returned by generate over k categories every category
\* receives count // k angles, plus one for exactly count mod k categories,
\* and no category without the extra is less covered in the graph than one
\* with it; also when count < k.
NumIn(c) == Cardinality({ i \in 1..Len(angles) : angles[i].category = c })

Requested == { report.categories[i] : i \in 1..Len(report.categories) }

C16_Allocation ==
  (pc = "returned" /\ called = "generate") =>
    LET k == Len(report.categories)
        q == report.count \div k
        coverage == get_coverage_by_category(knowledge)
        extra == { c \in Requested : NumIn(c) = q + 1 }
    IN  /\ \A c \in Requested : NumIn(c) \in { q, q + 1 }
        /\ Cardinality(extra) = report.count % k
        /\ \A e \in extra : \A c \in Requested \ extra : coverage[e] <= coverage[c]

\* C17: between iterations of run, an iteration without discovery-grade
\* result moves novelty one step along well_studied -> partially_explored ->
\* completely_novel (staying at the end) and sets prior_work to
\* many_failures; an iteration with discoveries that is not solved sets
\* data_availability to rich and keeps novelty and prior_work;
\* constraint_level never changes; novelty never improves during a run.
NoveltyRank(nov) ==
  CASE nov = "well_studied" -> 1
    [] nov = "partially_explored" -> 2
    [] OTHER -> 3

IterationCloses == mode = "run" /\ pc = "exec" /\ pc' = "loop"

HasDiscovery == \E i \in 1..Len(results) : is_discovery(results[i])

C17_Step ==
  /\ (IterationCloses /\ ~HasDiscovery) =>
        /\ NoveltyRank(novelty') = Min(3, NoveltyRank(novelty) + 1)
        /\ novelty' \in Novelties
        /\ prior_work' = "many_failures"
        /\ data_availability' = data_availability
  /\ (IterationCloses /\ HasDiscovery) =>
        /\ data_availability' = "rich"
        /\ novelty' = novelty
        /\ prior_work' = prior_work
  /\ (mode = "run" /\ mode' = "run") =>
        /\ constraint_level' = constraint_level
        /\ NoveltyRank(novelty') >= NoveltyRank(novelty)
        /\ ~IterationCloses => UNCHANGED descriptorVars

C17_DescriptorUpdates == [][C17_Step]_vars

C17_Witness ==
  /\ mode = "run" /\ pc = "loop" /\ current_iteration = 2
  /\ problem = "B"
  /\ novelty = "partially_explored"
  /\ prior_work = "many_failures"
  /\ data_availability = "rich"

\* C20: with no custom factors the estimate strictly decreases along novelty
\* well_studied > partially_explored > completely_novel, along
\* data_availability rich > moderate > sparse and along constraint_level
\* highly_constrained > moderately_constrained > wide_open, whatever the
\* other three descriptors are; and every estimate, with or without custom
\* factors, lies in [0.001, 0.5].
DataRank(data) ==
  CASE data = "rich" -> 1
    [] data = "moderate" -> 2
    [] OTHER -> 3

ConstraintRank(cons) ==
  CASE cons = "highly_constrained" -> 1
    [] cons = "moderately_constrained" -> 2
    [] OTHER -> 3

C20_EstimatorOrdering ==
  (pc = "returned" /\ called = "estimate") =>
    /\ report.p >= PUnit \div 1000
    /\ report.p <= PUnit \div 2
    /\ estimation_history[Len(estimation_history)].estimated_p = report.p
    /\ report.custom_factors = << >> =>
         /\ novelty \in Novelties =>
              \A worse \in Novelties :
                NoveltyRank(worse) > NoveltyRank(novelty) =>
                  estimate(worse, data_availability, constraint_level, prior_work, << >>)
                    < report.p
         /\ data_availability \in DataLevels =>
              \A worse \in DataLevels :
                DataRank(worse) > DataRank(data_availability) =>
                  estimate(novelty, worse, constraint_level, prior_work, << >>)
                    < report.p
         /\ constraint_level \in ConstraintLevels =>
              \A worse \in ConstraintLevels :
                ConstraintRank(worse) > ConstraintRank(constraint_level) =>
                  estimate(novelty, data_availability, worse, prior_work, << >>)
                    < report.p

C20_Witness ==
  /\ pc = "returned" /\ called = "estimate"
  /\ report.custom_factors = << >>
  /\ novelty = "well_studied" /\ data_availability = "rich"
  /\ constraint_level = "highly_constrained" /\ prior_work = "fresh_problem"
  /\ report.p = 1740

\* C18: for all p and target in (0,1),
\* breakthrough_probability(p, angles_needed(p, target)) >= target.
C18_MathConsistency ==
  ( /\ pc = "returned" /\ called = "calculate_breakthrough_probability"
    /\ report.target # 0 /\ raised = "none" )
    => report.value >= report.target * (report.scale \div FOne)

\* C19: calculate_angles_needed raises ValueError whenever p <= 0, p >= 1,
\* target <= 0 or target >= 1, calculate_breakthrough_probability whenever
\* p <= 0, p >= 1 or n < 1, and for valid arguments angles_needed returns an
\* integer >= 1.
OutOfRange(x) == x <= 0 \/ x >= FOne

C19_InvalidArguments ==
  /\ (pc = "returned" /\ called = "calculate_angles_needed") =>
       IF OutOfRange(report.p) \/ OutOfRange(report.target)
         THEN raised = "ValueError"
         ELSE raised = "none" /\ report.n >= 1
  /\ (pc = "returned" /\ called = "calculate_breakthrough_probability") =>
       ((OutOfRange(report.p) \/ report.n < 1) => raised = "ValueError")

\* C21: after any run call returns (a first run, a second run or a resume on
\* the same engine) the audit log holds exactly one record per estimation of
\* that run, in order, numbered 1..k for the k loop bodies executed, and each
\* record's calculated_n is angles_needed(estimated_p, target_confidence).
RunReturned ==
  pc = "returned" /\ called \in { "run", "resume" } /\ report.kind = "report"

C21_AuditLogPerRun ==
  RunReturned =>
    /\ Len(probability_logs) = bodies
    /\ \A i \in 1..Len(probability_logs) :
         /\ probability_logs[i].loop_iteration = i
         /\ probability_logs[i].calculated_n =
              calculate_angles_needed(probability_logs[i].estimated_p,
                                      probability_logs[i].target_confidence)

\* C22: the merge that closes an iteration leaves the knowledge graph as the
\* registration during execution made it, so failed_approaches holds the id of
\* each no-signal angle exactly once and is as long as the number of results
\* with has_signal = false.
NoSignalResults(kg) == { k \in DOMAIN kg.results : ~kg.results[k].has_signal }

Occurrences(list, x) == Cardinality({ i \in 1..Len(list) : list[i] = x })

Merging == mode = "run" /\ pc = "exec" /\ pc' = "loop"

C22_Step ==
  Merging =>
    /\ knowledge'.angles = knowledge.angles
    /\ knowledge'.results = knowledge.results
    /\ knowledge'.failed_approaches = knowledge.failed_approaches
    /\ Len(knowledge'.failed_approaches) = Cardinality(NoSignalResults(knowledge'))
    /\ \A k \in NoSignalResults(knowledge') :
         Occurrences(knowledge'.failed_approaches, k) = 1

C22_MergeIdempotent == [][C22_Step]_vars

\* C23: the iterator form runs exactly one loop iteration per resumption and
\* yields one snapshot after each: the yielded iteration numbers are 1, 2, 3,
\* ... consecutively, at most max_iterations snapshots are yielded, no snapshot
\* follows one whose state is solved, and a pause request never moves the
\* engine to PAUSED.
Yielding == mode = "iterator" /\ pc = "exec" /\ pc' = "yielded"

C23_Step ==
  /\ Yielding =>
       /\ report'.kind = "snapshot"
       /\ report'.iterations = report.iterations + 1
       /\ report'.iterations = bodies
       /\ report'.iterations <= max_iterations
       /\ report.state # SOLVED
  /\ called' = "run_iterator" => state' # PAUSED

C23_IteratorSnapshots == [][C23_Step]_vars

C23_Witness ==
  /\ pc = "yielded"
  /\ called = "run_iterator"
  /\ report.iterations = 2
  /\ interrupt_requested
  /\ state = SOLVED

\* C24: the two driving modes execute the same loop iteration: with the same
\* inputs, executor and checker, run_iterator consumed to the end gives the
\* same (p, n) per iteration, the same number of angles executed per
\* iteration, the same discoveries and the same final state as run.  One
\* iteration of run executes the n generated angles and the branch angles of
\* every signalling result, and adapts the descriptors the next (p, n) are
\* computed from; the claim holds iff an iteration of either mode does so.
IterationEnds == pc = "exec" /\ idx = Len(angles) /\ pc' # "exec"

RECURSIVE BranchTotal(_)
BranchTotal(rs) ==
  IF rs = << >> THEN 0
  ELSE (IF Head(rs).has_signal THEN branch_count(Head(rs)) ELSE 0) + BranchTotal(Tail(rs))

C24_Step ==
  IterationEnds =>
    /\ Len(results) =
         probability_logs[Len(probability_logs)].calculated_n + BranchTotal(results)
    /\ IterationDiscoveries = << >> =>
         novelty' = degrade(novelty) /\ prior_work' = "many_failures"
    /\ (IterationDiscoveries # << >> /\ state' = RUNNING) =>
         data_availability' = "rich"

C24_ModesAgree == [][C24_Step]_vars

\* C25: a result is discovery-grade iff has_signal is true and signal_strength
\* >= 0.3 (0.3 itself counts); each iteration records exactly one Discovery per
\* discovery-grade result of that iteration and none for any other result,
\* with confidence equal to the result's signal strength and the result's
\* angle id as its single source, so a run records as many discoveries as it
\* executed discovery-grade results.
Grade(rs) == SelectSeq(rs, LAMBDA r : r.has_signal /\ r.signal_strength >= 30)

Recorded == SubSeq(all_discoveries', Len(all_discoveries) + 1, Len(all_discoveries'))

C25_Step ==
  /\ IterationEnds =>
       /\ SubSeq(all_discoveries', 1, Len(all_discoveries)) = all_discoveries
       /\ Len(Recorded) = Len(Grade(results))
       /\ \A i \in 1..Len(Recorded) :
            /\ Recorded[i].confidence = Grade(results)[i].signal_strength
            /\ Recorded[i].source_angles = << Grade(results)[i].angle.id >>
            /\ Recorded[i].id \notin DOMAIN knowledge.discoveries
            /\ Recorded[i].id \in DOMAIN knowledge'.discoveries
       /\ Cardinality(DOMAIN knowledge'.discoveries) =
            Cardinality(DOMAIN knowledge.discoveries) + Len(Grade(results))
  /\ ~IterationEnds =>
       \/ all_discoveries' = all_discoveries
       \/ all_discoveries' = << >>

C25_OneDiscoveryPerGradeResult == [][C25_Step]_vars

C25_Witness ==
  /\ pc = "return"
  /\ state = SOLVED
  /\ Len(all_discoveries) = 1
  /\ all_discoveries[1].confidence = 30
  /\ \E i \in 1..Len(results) : ~results[i].has_signal /\ results[i].signal_strength = 50

\* C26: the safety ceiling is tested before the pause request at the top of
\* each iteration: when a pause is requested during iteration max_iterations
\* and that iteration is not solved, run ends EXHAUSTED, not PAUSED, no
\* checkpoint is saved, and a following resume() without an explicit
\* checkpoint fails unless an earlier pause had stored one.
PauseInLastIteration ==
  mode = "run" /\ paused_in = max_iterations /\ paused_in >= 1 /\ interrupt_requested

C26_Step ==
  /\ (PauseInLastIteration /\ AtLoopTop) =>
       /\ state' = EXHAUSTED
       /\ checkpoint' = checkpoint
       /\ pc' = "return"
  /\ (PauseInLastIteration /\ pc = "return" /\ pc' = "returned" /\ state # SOLVED) =>
       /\ state = EXHAUSTED
       /\ report'.state = EXHAUSTED
       /\ checkpoint' = checkpoint
  /\ (pc = "returned" /\ state = EXHAUSTED /\ checkpoint.none /\ called' = "resume"
        /\ pc' = "loop") =>
       checkpoint' = caller_checkpoint /\ ~caller_checkpoint.none
  /\ (pc = "returned" /\ state = EXHAUSTED /\ raised' = "ValueError" /\ raised = "none") =>
       checkpoint.none /\ UNCHANGED engineVars

C26_CeilingBeforePause == [][C26_Step]_vars

C26_Witness ==
  /\ pc = "returned"
  /\ called = "run"
  /\ state = EXHAUSTED
  /\ paused_in = max_iterations
  /\ paused_in >= 1
  /\ interrupt_requested
  /\ checkpoint.none
  /\ raised = "ValueError"

\* C27: on resume the new run's iteration counter restarts at 1 instead of
\* continuing from the checkpoint's iteration and the descriptors restart at
\* their defaults; the ceiling applies per run call, so the loop bodies
\* executed across a pause/resume sequence can exceed max_iterations.
Resuming == called' = "resume" /\ pc' = "loop" /\ pc \in { "idle", "returned", "yielded" }

C27_Step ==
  /\ Resuming =>
       /\ current_iteration' = 0
       /\ bodies' = 0
       /\ novelty' = "partially_explored"
       /\ data_availability' = "moderate"
       /\ constraint_level' = "moderately_constrained"
       /\ prior_work' = "some_attempts"
  /\ (called = "resume" /\ pc = "loop" /\ pc' = "exec") =>
       /\ current_iteration' = bodies'
       /\ probability_logs'[Len(probability_logs')].loop_iteration = bodies'
       /\ bodies' <= max_iterations

C27_ResumeRestartsCounter == [][C27_Step]_vars

C27_Witness ==
  /\ called = "resume"
  /\ pc = "exec"
  /\ max_iterations = 2
  /\ checkpoint.iteration = 2
  /\ bodies = 2
  /\ Len(probability_logs) = 3
  /\ probability_logs[1].reasoning[1] = "well_studied"
  /\ probability_logs[2].reasoning[1] = "partially_explored"

\* C28: a pause requested before run starts is discarded: run clears the pause
\* flag on entry, so a run returns in state PAUSED only if pause() was called
\* after that call began; pause() followed by run() with a never-signalling
\* executor ends in EXHAUSTED.
RunBegins == pc \in { "idle", "returned", "yielded" } /\ pc' = "loop" /\ called' \in { "run", "resume" }

C28_Step ==
  /\ RunBegins => ~interrupt_requested'
  /\ (state # PAUSED /\ state' = PAUSED) =>
       /\ mode = "run"
       /\ interrupt_requested
       /\ pc' = "return"
  /\ (mode = "run" /\ pc = "return" /\ pc' = "returned"
        /\ run_signals = 0 /\ ~interrupt_requested) =>
       state = EXHAUSTED /\ report'.state = EXHAUSTED

C28_PauseBeforeRunDiscarded == [][C28_Step]_vars

C28_Witness ==
  /\ pc = "returned"
  /\ called = "run"
  /\ run_calls = 2
  /\ ~checkpoint.none
  /\ caller_checkpoint.none
  /\ ~interrupt_requested
  /\ run_signals = 0
  /\ state = EXHAUSTED

\* C29: an iteration of run in which some results have signal but none is
\* discovery-grade (every signalling result has strength < 0.3) is a
\* no-discovery iteration: branch angles are still appended and executed for
\* each signalling result, no Discovery is recorded, the solution checker is
\* not invoked, the state cannot become SOLVED in that iteration, and the
\* pessimistic descriptor adjustment is applied.
Weak(r) == r.has_signal /\ r.signal_strength < 30

WeakSignalsOnly ==
  /\ mode = "run"
  /\ pc = "exec"
  /\ idx = Len(angles)
  /\ \E i \in 1..Len(results) : results[i].has_signal
  /\ \A i \in 1..Len(results) : results[i].has_signal => Weak(results[i])

C29_Step ==
  /\ (mode = "run" /\ pc = "record" /\ Weak(result) /\ pc' = "exec") =>
       /\ Len(angles') = Len(angles) + 10 + (result.signal_strength \div 10)
       /\ \A i \in (Len(angles) + 1)..Len(angles') : angles'[i].parent_id = result.angle.id
  /\ (WeakSignalsOnly /\ pc' # "exec") =>
       /\ Len(results) = Len(angles)
       /\ Len(results) > probability_logs[Len(probability_logs)].calculated_n
       /\ all_discoveries' = all_discoveries
       /\ knowledge'.discoveries = knowledge.discoveries
       /\ calls'.checker = calls.checker
       /\ state' = RUNNING
       /\ pc' = "loop"
       /\ novelty' = degrade(novelty)
       /\ prior_work' = "many_failures"
       /\ data_availability' = data_availability

C29_WeakSignalIteration == [][C29_Step]_vars

C29_Witness ==
  /\ mode = "run"
  /\ pc = "loop"
  /\ current_iteration = 1
  /\ run_signals = 2
  /\ calls.branch = 2
  /\ calls.checker = 0
  /\ all_discoveries = << >>
  /\ prior_work = "many_failures"
  /\ novelty = "completely_novel"
  /\ Len(results) = 25

\* C30: when run is called with a target confidence outside (0,1), the
\* invalid-argument error is raised in the first iteration before any angle is
\* generated or executed and before any record is appended to the engine's
\* probability logs, but the engine is not restored: its state is left RUNNING
\* with current_iteration = 1 and the estimator's history has gained one entry.
InvalidTarget == target_confidence <= 0 \/ target_confidence >= PUnit

C30_Step ==
  /\ (mode = "run" /\ InvalidTarget /\ pc = "loop" /\ pc' = "exec") => FALSE
  /\ (mode = "run" /\ InvalidTarget /\ pc = "loop" /\ ~interrupt_requested
        /\ pc' # "loop") =>
       /\ raised' = "ValueError"
       /\ pc' = "returned"
       /\ current_iteration = 0
       /\ current_iteration' = 1
       /\ state' = RUNNING
       /\ probability_logs' = probability_logs
       /\ knowledge' = knowledge
       /\ uuid' = uuid
       /\ calls' = NoCalls
       /\ generated' = 0
       /\ Len(estimation_history') = Len(estimation_history) + 1
       /\ estimation_history'[Len(estimation_history')].loop_iteration = 1

C30_InvalidTargetRaises == [][C30_Step]_vars

C30_Witness ==
  /\ pc = "returned"
  /\ called = "run"
  /\ raised = "ValueError"
  /\ state = RUNNING
  /\ current_iteration = 1
  /\ Len(estimation_history) = 1
  /\ probability_logs = << >>
  /\ calls = NoCalls

====
